---- MODULE Spec2Model ----
(***************************************************************************)
(* A model of the likelihood engine of zihaoxu98/inference:                *)
(*   inference/likelihood.py  Likelihood, ProfiledLikelihood,              *)
(*                            CombinedProfiledLikelihood                   *)
(*   inference/config.py      Constant.build, Template.build and the cache *)
(*   inference/parallel.py    compute_many                                 *)
(*   aptinf/optimizer.py      minimize / maximize (minuit -> scipy chain)  *)
(*   aptinf/.ipynb_checkpoints/model-checkpoint.py  ModelBase, Gaussian    *)
(*                                                                         *)
(* Floats are fixed-point integers.  Parameter values and range bounds are *)
(* counted in grid steps of a quarter (value 4 is 1.0); log-likelihoods    *)
(* are counted in thousandths (Scale is 1.0).                              *)
(*                                                                         *)
(* The module holds one specification per component; each specification    *)
(* keeps the variables of the other components at their initial value.     *)
(*   SpecOpt    the optimizer chain (minimize)                             *)
(*   SpecPen    set_param_range and the boundary penalty                   *)
(*   SpecLik    set_likelihood, term by term                               *)
(*   SpecRange  set_likelihood and set_param_range on one object           *)
(*   SpecAlias  a term is constructed from aliases, then resolved          *)
(*   SpecProf   a ProfiledLikelihood: set_data, profiling, chi2            *)
(*   SpecComb   the construction of a CombinedProfiledLikelihood           *)
(*   SpecToy    a CombinedProfiledLikelihood: toy data, loglikelihood      *)
(*   SpecCfg    the builds of named configs and their shared cache         *)
(*   SpecCm     compute_many and the units of its pool                     *)
(***************************************************************************)
EXTENDS Integers, Sequences, FiniteSets, TLC

VARIABLES
    likelihood_entries, \* self.likelihood_entries: tag -> term
    param_needed,       \* self.param_needed: set of flat names
    param_range,        \* self.param_range: key -> <<lo, hi>>
    bound_data,         \* self.loglikelihood: the data the closure is bound to, or NoData
    max_loglikelihood,  \* self.max_loglikelihood, or NoMax while the attribute is unset
    ret,                \* the outcome of the last call on the likelihood object
    pending,            \* set_likelihood: the term specs not processed yet
    likelihoods,        \* CombinedProfiledLikelihood.likelihoods: the members
    opt_pc,             \* minimize: where the call stands
    opt_method,         \* minimize: the method argument
    opt_tried,          \* minimize: the strategies run so far, with their outcome
    opt_ret,            \* minimize: what the call returned or raised
    defined,            \* the attributes set_likelihood assigns exist on the object
    cached_configs,     \* aptinf.share._cached_configs: name -> resolved value
    configs,            \* the Config instances: what build has set on each
    cm_pc,              \* compute_many: where the call stands
    units,              \* the pool: the state of the unit submitted for each hash
    futures,            \* compute_many: the list futures
    done_is,            \* compute_many: the list _done_is of the current pass
    f_i,                \* compute_many: the index of the for loop of the current pass
    pbar,               \* compute_many: the count of the progress bar
    cm_ret              \* compute_many: what the call returned or raised

cfgVars == <<cached_configs, configs>>
cmVars == <<cm_pc, units, futures, done_is, f_i, pbar, cm_ret>>
extVars == <<cfgVars, cmVars>>

vars == <<likelihood_entries, param_needed, param_range, bound_data,
          max_loglikelihood, ret, pending, likelihoods,
          opt_pc, opt_method, opt_tried, opt_ret, defined, extVars>>

likVars == <<likelihood_entries, param_needed, pending, defined>>
profVars == <<bound_data, max_loglikelihood>>
optVars == <<opt_pc, opt_method, opt_tried, opt_ret>>

----------------------------------------------------------------------------
(* Bounds of the exploration *)

\* parameter values range over 0..MaxVal grid steps
MaxVal == 4
\* range bounds range over 1..MaxBound grid steps
MaxBound == 2

----------------------------------------------------------------------------
(* Python dictionaries: functions with a finite domain of names *)

EmptyDict == [k \in {} |-> 0]

Dicts(keys, vals) == UNION {[S -> vals] : S \in SUBSET keys}

\* dict.update: the entries of e overwrite those of d
DictUpdate(d, e) ==
    [k \in (DOMAIN d) \cup (DOMAIN e) |-> IF k \in DOMAIN e THEN e[k] ELSE d[k]]

\* no set_data yet: self.loglikelihood is still Likelihood.loglikelihood
NoData == [bound |-> FALSE, data |-> EmptyDict]
BoundTo(data) == [bound |-> TRUE, data |-> data]
\* the attribute max_loglikelihood does not exist before the first assignment
NoMax == [set |-> FALSE, value |-> 0]
MaxIs(v) == [set |-> TRUE, value |-> v]
NoRet == [op |-> "none", status |-> "none"]

\* the exceptions of a missing dictionary key and of a missing attribute
KeyError == "KeyError"
AttributeError == "AttributeError"

----------------------------------------------------------------------------
(* Fixed-point floats *)

\* 1.0 in thousandths
Scale == 1000
\* e^(1/4) in thousandths: np.exp over one grid step
ExpQuarter == 1284

\* np.exp(d / 4), d >= 0 grid steps, in thousandths
RECURSIVE NpExp(_)
NpExp(d) == IF d = 0 THEN Scale ELSE (NpExp(d - 1) * ExpQuarter) \div Scale

----------------------------------------------------------------------------
(* Likelihood._get_param_bound_aux_llh *)

\* a variant that penalises the bounds themselves (<= and >= for < and >)
KeyAuxB(range, key, value) ==
    IF key \in DOMAIN range
    THEN (IF value <= range[key][1] THEN -NpExp(range[key][1] - value) ELSE 0)
       + (IF value >= range[key][2] THEN -NpExp(value - range[key][2]) ELSE 0)
    ELSE 0

\* the body of the loop for one key of param
KeyAux(range, key, value) ==
    IF key \in DOMAIN range
    THEN (IF value < range[key][1] THEN -NpExp(range[key][1] - value) ELSE 0)
       + (IF value > range[key][2] THEN -NpExp(value - range[key][2]) ELSE 0)
    ELSE 0

RECURSIVE AuxSum(_, _, _)
AuxSum(range, param, keys) ==
    IF keys = {} THEN 0
    ELSE LET key == CHOOSE k \in keys : TRUE
         IN KeyAux(range, key, param[key]) + AuxSum(range, param, keys \ {key})

\* auxiliary = 0; for key, value in param.items(): ...; return auxiliary
GetParamBoundAuxLlh(range, param) == AuxSum(range, param, DOMAIN param)

----------------------------------------------------------------------------
(* Likelihood.set_param_range *)

PenKeys == {"mu", "nu"}
Vals == 0..MaxVal
Ranges == (1..MaxBound) \X (1..MaxBound)

\* no call is running on the likelihood object
Idle == ret.status # "running"

\* a variant that replaces the whole mapping by the argument
set_param_range_replacing(new_range) ==
    /\ Idle
    /\ param_range' = new_range
    /\ ret' = [op |-> "set_param_range", new_range |-> new_range,
               status |-> "returned", err |-> "none"]
    /\ UNCHANGED <<likVars, profVars, likelihoods, extVars, optVars>>

\* for key, range in param_range.items(): self.param_range[key] = range
\* (before the first set_likelihood the attribute self.param_range does not
\* exist, and the first assignment of the loop raises AttributeError)
set_param_range(new_range) ==
    /\ Idle
    /\ IF defined \/ new_range = EmptyDict
       THEN /\ param_range' = DictUpdate(param_range, new_range)
            /\ ret' = [op |-> "set_param_range", new_range |-> new_range,
                       status |-> "returned", err |-> "none"]
       ELSE /\ param_range' = param_range
            /\ ret' = [op |-> "set_param_range", new_range |-> new_range,
                       status |-> "raised", err |-> AttributeError]
    /\ UNCHANGED <<likVars, profVars, likelihoods, extVars, optVars>>

\* a call of self._get_param_bound_aux_llh(param)
get_param_bound_aux_llh(param) ==
    /\ Idle
    /\ ret' = [op |-> "aux_llh", status |-> "returned", param |-> param,
               value |-> GetParamBoundAuxLlh(param_range, param)]
    /\ UNCHANGED <<likVars, param_range, profVars, likelihoods, extVars, optVars>>

\* nothing has been built or submitted: the cache is empty, no pool exists
InitExt ==
    /\ cached_configs = EmptyDict
    /\ configs = EmptyDict
    /\ cm_pc = "idle"
    /\ units = <<>>
    /\ futures = <<>>
    /\ done_is = {}
    /\ f_i = 0
    /\ pbar = 0
    /\ cm_ret = NoRet

InitFields ==
    /\ likelihood_entries = EmptyDict
    /\ param_needed = {}
    /\ param_range = EmptyDict
    /\ bound_data = NoData
    /\ max_loglikelihood = NoMax
    /\ ret = NoRet
    /\ pending = <<>>
    /\ likelihoods = <<>>
    /\ opt_pc = "idle"
    /\ opt_method = "none"
    /\ opt_tried = <<>>
    /\ opt_ret = NoRet
    /\ InitExt

\* a Likelihood on which set_likelihood has not been called
InitIdle == InitFields /\ defined = FALSE

\* a Likelihood after set_likelihood([])
InitPen == InitFields /\ defined = TRUE

NextPen ==
    \/ \E r \in Dicts(PenKeys, Ranges) \ {EmptyDict} : set_param_range(r)
    \/ \E p \in Dicts(PenKeys, Vals) : get_param_bound_aux_llh(p)

SpecPen == InitPen /\ [][NextPen]_vars

----------------------------------------------------------------------------
(* The boundary penalty: claims C8, C9 *)

RECURSIVE DictSum(_)
DictSum(f) ==
    IF DOMAIN f = {} THEN 0
    ELSE LET k == CHOOSE x \in DOMAIN f : TRUE
         IN f[k] + DictSum([x \in (DOMAIN f) \ {k} |-> f[x]])

InRange(range, key, value) == range[key][1] <= value /\ value <= range[key][2]

\* C8: the penalty of a flat dictionary is the sum, over the keys present in
\* both the dictionary and param_range, of a per-key term that is 0 when
\* lo <= value <= hi and strictly negative when value < lo or value > hi;
\* the other keys of either side contribute nothing, so the penalty is 0 when
\* every ranged key is within its bounds, and it is never positive.
C8_PenaltyIsSumOfKeyTerms ==
    ret.op = "aux_llh" =>
        LET p == ret.param
            common == (DOMAIN p) \cap (DOMAIN param_range)
            term == [k \in common |->
                        GetParamBoundAuxLlh([x \in {k} |-> param_range[k]],
                                            [x \in {k} |-> p[k]])]
        IN /\ ret.value = DictSum(term)
           /\ \A k \in common :
                 /\ InRange(param_range, k, p[k]) => term[k] = 0
                 /\ ~InRange(param_range, k, p[k]) => term[k] < 0
           /\ (\A k \in common : InRange(param_range, k, p[k])) => ret.value = 0
           /\ ret.value <= 0

\* two ranged keys, one within its bounds and one above its upper bound
C8_Witness ==
    /\ ret.op = "aux_llh"
    /\ DOMAIN ret.param = {"mu", "nu"}
    /\ DOMAIN param_range = {"mu", "nu"}
    /\ InRange(param_range, "mu", ret.param["mu"])
    /\ ret.param["nu"] > param_range["nu"][2]
    /\ ret.value < 0

\* C9 (as claimed): the penalty is continuous at the bounds: it is exactly 0
\* at value = lo and value = hi, its magnitude tends to 0 as an out-of-range
\* value approaches the bound from outside (so one grid step outside it is
\* below 1.0, as it is for every finer grid), and it strictly decreases as the
\* value moves further outside.
C9_ContinuousAtBounds ==
    (ret.op = "aux_llh" /\ \E k \in DOMAIN param_range : DOMAIN ret.param = {k}) =>
        LET k == CHOOSE x \in DOMAIN ret.param : TRUE
            v == ret.param[k]
            lo == param_range[k][1]
            hi == param_range[k][2]
            at(w) == GetParamBoundAuxLlh(param_range, [x \in {k} |-> w])
        IN lo <= hi =>
              /\ (v = lo \/ v = hi) => ret.value = 0
              /\ (v = lo - 1 \/ v = hi + 1) => -ret.value < Scale
              /\ v < lo => at(v - 1) < ret.value
              /\ v > hi => at(v + 1) < ret.value

\* What the code does at the bounds: 0 on the bound, at most -1.0 anywhere
\* outside (-exp(d) <= -1 for every d > 0), strictly decreasing further out.
PenaltyJumpsAtBounds ==
    (ret.op = "aux_llh" /\ \E k \in DOMAIN param_range : DOMAIN ret.param = {k}) =>
        LET k == CHOOSE x \in DOMAIN ret.param : TRUE
            v == ret.param[k]
            lo == param_range[k][1]
            hi == param_range[k][2]
            at(w) == GetParamBoundAuxLlh(param_range, [x \in {k} |-> w])
        IN lo <= hi =>
              /\ (v = lo \/ v = hi) => ret.value = 0
              /\ (v < lo \/ v > hi) => ret.value <= -Scale
              /\ v < lo => at(v - 1) < ret.value
              /\ v > hi => at(v + 1) < ret.value

----------------------------------------------------------------------------
(* aptinf/optimizer.py: minimize *)

\* What a strategy (Minuit's migrad, scipy's Powell) does with the objective:
\*   valid    it ends with minimizer.valid / minimizer.success set, at (x, y)
\*   invalid  it ends without a valid minimum
\*   raises   an exception leaves it: the objective raised err
ObjectiveErrors == {"KeyError", "ValueError"}

Outcome(kind, x, y, err) == [kind |-> kind, x |-> x, y |-> y, err |-> err]

Outcomes ==
    {Outcome("valid", x, y, "none") : x \in Vals, y \in Vals}
        \cup {Outcome("invalid", 0, 0, "none")}
        \cup {Outcome("raises", 0, 0, e) : e \in ObjectiveErrors}

Returned(x, y) == [status |-> "returned", x |-> x, y |-> y, err |-> "none"]
Raised(err) == [status |-> "raised", x |-> 0, y |-> 0, err |-> err]
ReturnedNone == [status |-> "returned", x |-> "None", y |-> "None", err |-> "none"]

MinuitFails == "RuntimeError: Minuit minimizer fails!"
ScipyFails == "RuntimeError: Scipy minimizer fails!"
AllFail == "RuntimeError: All the minimizers fail!"

\* the branches method == 'minuit' and method == 'scipy'
RunStrategy(method, out) ==
    CASE out.kind = "raises" -> Raised(out.err)
      [] out.kind = "invalid" -> Raised(IF method = "minuit" THEN MinuitFails ELSE ScipyFails)
      [] OTHER -> Returned(out.x, out.y)

\* a variant that tries scipy first
SequenceMethodsRev == <<"scipy", "minuit">>

\* for method in ['minuit', 'scipy']
SequenceMethods == <<"minuit", "scipy">>

\* try: return minimize(func, x0, method) / except: pass
\* whether the except clause catches what result r raises: it names no
\* exception type, so it catches whatever is raised
Caught(r) == r.status = "raised"

\* the branch method == 'sequence', outs[i] being what the i-th strategy does
RECURSIVE TrySequence(_, _)
TrySequence(i, outs) ==
    IF i > Len(SequenceMethods) THEN Raised(AllFail)
    ELSE LET r == RunStrategy(SequenceMethods[i], outs[i])
         IN IF r.status = "returned" THEN r
            ELSE IF Caught(r) THEN TrySequence(i + 1, outs)
            ELSE r

\* maximize(func, x0): minimize(lambda x: -func(x), x0), then (x, -y)
Maximize(outs) ==
    LET r == TrySequence(1, outs)
    IN IF r.status = "returned" THEN Returned(r.x, -r.y) ELSE r

Methods == {"minuit", "scipy", "sequence", "other"}

\* minimize(func, x0, method) is entered
Call(method) ==
    /\ opt_pc = "idle"
    /\ opt_method' = method
    /\ opt_tried' = <<>>
    /\ IF method \in {"minuit", "scipy"} THEN opt_pc' = "direct" /\ opt_ret' = opt_ret
       ELSE IF method = "sequence" THEN opt_pc' = "loop" /\ opt_ret' = opt_ret
       ELSE opt_pc' = "done" /\ opt_ret' = ReturnedNone
    /\ UNCHANGED <<likVars, param_range, profVars, ret, likelihoods, extVars>>

\* method 'minuit' or 'scipy': the strategy runs, and its result or error is
\* the call's
Direct(out) ==
    /\ opt_pc = "direct"
    /\ opt_tried' = <<[method |-> opt_method, out |-> out]>>
    /\ opt_ret' = RunStrategy(opt_method, out)
    /\ opt_pc' = "done"
    /\ UNCHANGED <<likVars, param_range, profVars, ret, likelihoods, extVars, opt_method>>

\* method 'sequence': one iteration of the loop
TryNext(out) ==
    /\ opt_pc = "loop"
    /\ Len(opt_tried) < Len(SequenceMethods)
    /\ LET method == SequenceMethods[Len(opt_tried) + 1]
           r == RunStrategy(method, out)
       IN /\ opt_tried' = Append(opt_tried, [method |-> method, out |-> out])
          /\ IF r.status = "returned" \/ ~Caught(r)
             THEN opt_pc' = "done" /\ opt_ret' = r
             ELSE opt_pc' = "loop" /\ opt_ret' = opt_ret
    /\ UNCHANGED <<likVars, param_range, profVars, ret, likelihoods, extVars, opt_method>>

\* method 'sequence': the loop is over, raise RuntimeError("All the minimizers fail!")
RaiseAllFail ==
    /\ opt_pc = "loop"
    /\ Len(opt_tried) = Len(SequenceMethods)
    /\ opt_pc' = "done"
    /\ opt_ret' = Raised(AllFail)
    /\ UNCHANGED <<likVars, param_range, profVars, ret, likelihoods, extVars, opt_method, opt_tried>>

InitOpt == InitIdle

NextOpt ==
    \/ \E m \in Methods : Call(m)
    \/ \E out \in Outcomes : Direct(out)
    \/ \E out \in Outcomes : TryNext(out)
    \/ RaiseAllFail

SpecOpt == InitOpt /\ [][NextOpt]_vars

----------------------------------------------------------------------------
(* The optimizer chain: claims C1, C2 *)

Failed(out) == out.kind # "valid"

\* C1: with method 'sequence', minuit is tried first and scipy only after
\* minuit has failed (raised, or ended without a valid minimum); the call
\* returns minuit's (x, f) when minuit succeeds, without running scipy,
\* returns scipy's (x, f) when minuit fails and scipy succeeds, and raises
\* the all-minimizers-fail error exactly when both fail.
C1_ChainOrder ==
    opt_method = "sequence" =>
        /\ Len(opt_tried) <= 2
        /\ Len(opt_tried) >= 1 => opt_tried[1].method = "minuit"
        /\ Len(opt_tried) = 2 =>
              /\ opt_tried[2].method = "scipy"
              /\ Failed(opt_tried[1].out)
        /\ opt_pc = "done" =>
              /\ Len(opt_tried) >= 1
              /\ ~Failed(opt_tried[1].out) =>
                    /\ Len(opt_tried) = 1
                    /\ opt_ret = Returned(opt_tried[1].out.x, opt_tried[1].out.y)
              /\ Failed(opt_tried[1].out) =>
                    /\ Len(opt_tried) = 2
                    /\ ~Failed(opt_tried[2].out) =>
                          opt_ret = Returned(opt_tried[2].out.x, opt_tried[2].out.y)
              /\ (opt_ret = Raised(AllFail)) <=>
                    (Len(opt_tried) = 2 /\ Failed(opt_tried[1].out)
                                        /\ Failed(opt_tried[2].out))
              /\ opt_ret = TrySequence(1, <<opt_tried[1].out,
                                IF Len(opt_tried) = 2 THEN opt_tried[2].out
                                ELSE opt_tried[1].out>>)

\* minuit raised, scipy found a minimum, and the call returned scipy's
C1_Witness ==
    /\ opt_method = "sequence"
    /\ opt_pc = "done"
    /\ Len(opt_tried) = 2
    /\ opt_tried[1].out.kind = "raises"
    /\ opt_tried[2].out.kind = "valid"
    /\ opt_tried[2].out.x # opt_tried[2].out.y
    /\ opt_ret = Returned(opt_tried[2].out.x, opt_tried[2].out.y)

\* C2 (as claimed): the chain catches only the optimizers' own failures; an
\* error of another kind raised while a strategy runs (the objective's
\* KeyError, ValueError) ends the call at once with that same error: no
\* further strategy runs and the error is not replaced.
C2_OtherErrorsReraised ==
    (opt_method = "sequence" /\ opt_pc = "done") =>
        \A i \in 1..Len(opt_tried) :
            opt_tried[i].out.kind = "raises" =>
                /\ i = Len(opt_tried)
                /\ opt_ret = Raised(opt_tried[i].out.err)

----------------------------------------------------------------------------
(* model-checkpoint.py: aliases, ModelBase.__init__ and set_remap *)

\* An alias is a value (lit), a str naming a flat key, a callable with
\* formal parameter names (args), or a tuple of aliases (elems).
Lit(v) == [kind |-> "lit", val |-> v, name |-> "", args |-> <<>>, elems |-> <<>>]
Str(k) == [kind |-> "str", val |-> 0, name |-> k, args |-> <<>>, elems |-> <<>>]
Fn(f, args) == [kind |-> "fn", val |-> 0, name |-> f, args |-> args, elems |-> <<>>]
Tup(es) == [kind |-> "tuple", val |-> 0, name |-> "", args |-> <<>>, elems |-> es]

SeqRange(q) == {q[i] : i \in 1..Len(q)}

\* a variant that does not descend into tuples
InputNeededFromAliasFlat(alias) ==
    CASE alias.kind = "str" -> {alias.name}
      [] alias.kind = "fn" -> SeqRange(alias.args)
      [] OTHER -> {}

\* ModelBase._set_input_needed_from_alias: the names the alias adds
RECURSIVE InputNeededFromAlias(_)
InputNeededFromAlias(alias) ==
    CASE alias.kind = "str" -> {alias.name}
      [] alias.kind = "fn" -> SeqRange(alias.args)
      [] alias.kind = "tuple" ->
            UNION {InputNeededFromAlias(alias.elems[i]) : i \in 1..Len(alias.elems)}
      [] OTHER -> {}

\* the class attributes arg_needed and obs_needed
ArgNeeded(model) == IF model = "Gaussian" THEN {"mu", "std"} ELSE {"lam"}
ObsNeeded(model) == IF model = "Gaussian" THEN {"x"} ELSE {"n"}

\* the names of remap[which] that set_remap keeps, with their aliases
KeptRemap(remap, needed) == [k \in (DOMAIN remap) \cap needed |-> remap[k]]

NeededOf(remap) == UNION {InputNeededFromAlias(remap[k]) : k \in DOMAIN remap}

AssertionError == "AssertionError"

\* a variant without the assert: every remap is accepted
RemapNeverRejected(model, remap) == FALSE

\* set_remap's assert: remap['arg'] has a name outside arg_needed, and
\* model_class(remap) raises AssertionError
RemapRejected(model, remap) == ~((DOMAIN remap.arg) \subseteq ArgNeeded(model))

\* model_class(remap) when the assert passes: the instance ModelBase.__init__
\* and set_remap build.
\* (likelihood.py reads the instance's input_needed as param_needed.)
NewModel(model, remap) ==
    LET arg_remap == KeptRemap(remap.arg, ArgNeeded(model))
        obs_remap == KeptRemap(remap.obs, ObsNeeded(model))
    IN [model |-> model,
        remap |-> DictUpdate(arg_remap, obs_remap),
        arg_remap |-> arg_remap,
        obs_remap |-> obs_remap,
        arg_input_needed |-> NeededOf(arg_remap),
        obs_input_needed |-> NeededOf(obs_remap),
        param_needed |-> NeededOf(arg_remap) \cup NeededOf(obs_remap)]

----------------------------------------------------------------------------
(* Likelihood.set_likelihood *)

Item(tag, model, arg, obs) == [tag |-> tag, model |-> model, arg |-> arg, obs |-> obs]

\* self.likelihood_entries[tag] = model
StoreEntry(entries, tag, model) ==
    [t \in (DOMAIN entries) \cup {tag} |-> IF t = tag THEN model ELSE entries[t]]

\* self.param_needed.update(model.param_needed)
UpdateNeeded(needed, model) == needed \cup model.param_needed

\* set_likelihood(config) is entered: the three attributes are reset
set_likelihood_begin(config) ==
    /\ Idle
    /\ likelihood_entries' = EmptyDict
    /\ param_needed' = {}
    /\ param_range' = EmptyDict
    /\ pending' = config
    /\ defined' = TRUE
    /\ ret' = [op |-> "set_likelihood", config |-> config, err |-> "none",
               status |-> IF config = <<>> THEN "returned" ELSE "running"]
    /\ UNCHANGED <<profVars, likelihoods, extVars, optVars>>

\* one iteration of "for item in config"; the call returns after the last
\* one, and ends with the model's error when model_class(remap) raises
set_likelihood_item ==
    /\ ret.status = "running"
    /\ ret.op = "set_likelihood"
    /\ pending # <<>>
    /\ LET item == Head(pending)
           remap == [arg |-> item.arg, obs |-> item.obs]
           model == NewModel(item.model, remap)
       IN IF RemapRejected(item.model, remap)
          THEN /\ ret' = [ret EXCEPT !.status = "raised", !.err = AssertionError]
               /\ pending' = <<>>
               /\ UNCHANGED <<likelihood_entries, param_needed>>
          ELSE /\ likelihood_entries' = StoreEntry(likelihood_entries, item.tag, model)
               /\ param_needed' = UpdateNeeded(param_needed, model)
               /\ pending' = Tail(pending)
               /\ ret' = [ret EXCEPT !.status = IF Tail(pending) = <<>>
                                                THEN "returned" ELSE "running"]
    /\ UNCHANGED <<param_range, defined, profVars, likelihoods, extVars, optVars>>

\* the number of term specs of a config
MaxSpecs == 3

\* std = 1.0
StdOne == Lit(4)

Items ==
    { Item("sig", "Gaussian", [mu |-> Str("m"), std |-> StdOne], [x |-> Str("x")]),
      Item("sig", "Poisson", [lam |-> Fn("add", <<"s", "b">>)], [n |-> Str("n")]),
      Item("bkg", "Poisson", [lam |-> Tup(<<Str("b"), Lit(1)>>)], [n |-> Str("n")]),
      Item("anc", "Gaussian", [mu |-> Str("m"), std |-> StdOne, lam |-> Str("s")],
                              [x |-> Lit(0)]) }

Configs == UNION {[1..n -> Items] : n \in 0..MaxSpecs}

InitLik == InitIdle

NextLik ==
    \/ \E config \in Configs : set_likelihood_begin(config)
    \/ set_likelihood_item

SpecLik == InitLik /\ [][NextLik]_vars

----------------------------------------------------------------------------
(* set_likelihood: claims C6, C7 *)

Tags(config) == {config[i].tag : i \in 1..Len(config)}

DuplicateTag(config) ==
    \E i, j \in 1..Len(config) : i # j /\ config[i].tag = config[j].tag

\* C6 (as claimed): a list of term specs in which two specs carry the same
\* tag is rejected with an error when the Likelihood is defined: the call
\* does not return, and while it runs no held term is replaced by a later
\* one of the same tag.
C6_DuplicateTagRejected ==
    (ret.op = "set_likelihood" /\ DuplicateTag(ret.config)) =>
        /\ ret.status # "returned"
        /\ \A i \in 1..(Len(ret.config) - Len(pending)) :
              ret.status = "running" =>
                 \A j \in 1..(i - 1) :
                    ret.config[j].tag = ret.config[i].tag =>
                       likelihood_entries[ret.config[i].tag]
                          = NewModel(ret.config[j].model,
                                     [arg |-> ret.config[j].arg, obs |-> ret.config[j].obs])

\* C7 (as claimed): when set_likelihood(config) has returned, param_needed is
\* exactly the union of the param_needed sets of the terms held in
\* likelihood_entries.
C7_ParamNeededIsUnionOfHeldTerms ==
    (ret.op = "set_likelihood" /\ ret.status = "returned") =>
        param_needed =
            UNION {likelihood_entries[t].param_needed : t \in DOMAIN likelihood_entries}

\* What holds of the code: param_needed is the union over every term the call
\* constructed, held or replaced, and no iteration removes a name.
ParamNeededIsUnionOfBuiltTerms ==
    (ret.op = "set_likelihood" /\ ret.status # "raised") =>
        param_needed =
            UNION {NewModel(ret.config[i].model,
                            [arg |-> ret.config[i].arg, obs |-> ret.config[i].obs]).param_needed
                   : i \in 1..(Len(ret.config) - Len(pending))}

ParamNeededGrows ==
    [][(ret.status = "running" /\ ret'.op = "set_likelihood" /\ ret'.status # "raised"
            /\ ret'.config = ret.config /\ Len(pending') < Len(pending))
         => param_needed \subseteq param_needed']_vars

----------------------------------------------------------------------------
(* CombinedProfiledLikelihood.__init__ *)

Max2(a, b) == IF a >= b THEN a ELSE b
Min2(a, b) == IF a <= b THEN a ELSE b

\* a variant that takes the hull of the two ranges (min for max, max for min)
IntersectRangeWiden(old, new) == <<Min2(old[1], new[1]), Max2(old[2], new[2])>>

\* lower = max(...); upper = min(...); self.param_range[key] = (lower, upper)
IntersectRange(old, new) == <<Max2(old[1], new[1]), Min2(old[2], new[2])>>

\* for key, _range in _likelihood.param_range.items(): ...
MergeRange(range, member_range) ==
    [key \in (DOMAIN range) \cup (DOMAIN member_range) |->
        IF key \notin DOMAIN member_range THEN range[key]
        ELSE IF key \in DOMAIN range THEN IntersectRange(range[key], member_range[key])
        ELSE member_range[key]]

\* the state of the loop "for _likelihood in self.likelihoods" after the
\* first n members
RECURSIVE CombinedAfter(_, _)
CombinedAfter(members, n) ==
    IF n = 0 THEN [param_needed |-> {}, param_range |-> EmptyDict]
    ELSE LET before == CombinedAfter(members, n - 1)
         IN [param_needed |-> before.param_needed \cup members[n].param_needed,
             param_range |-> MergeRange(before.param_range, members[n].param_range)]

\* combine_profile_likelihoods(*likelihoods): the constructor of the
\* CombinedProfiledLikelihood, run once on the members it is given
combine_profile_likelihoods ==
    /\ ret = NoRet
    /\ param_needed' = CombinedAfter(likelihoods, Len(likelihoods)).param_needed
    /\ param_range' = CombinedAfter(likelihoods, Len(likelihoods)).param_range
    /\ ret' = [op |-> "combine", status |-> "returned"]
    /\ UNCHANGED <<likelihood_entries, pending, defined, likelihoods, extVars, profVars,
                   optVars>>

\* the number of members of a combination
MaxMembers == 3

\* the members: ProfiledLikelihood objects, each with the param_range its
\* set_param_range calls left and the param_needed of its terms
MemberRanges ==
    Dicts({"mu"}, Ranges) \cup {[k \in {"nu"} |-> <<1, MaxBound>>]}

MemberNeeded == {{"mu", "x"}, {"nu"}}

Members ==
    {[param_needed |-> n, param_range |-> r] : n \in MemberNeeded, r \in MemberRanges}

\* the members exist before the combination is constructed
InitComb ==
    /\ likelihoods \in UNION {[1..n -> Members] : n \in 0..MaxMembers}
    /\ likelihood_entries = EmptyDict
    /\ param_needed = {}
    /\ param_range = EmptyDict
    /\ bound_data = NoData
    /\ max_loglikelihood = NoMax
    /\ ret = NoRet
    /\ pending = <<>>
    /\ opt_pc = "idle"
    /\ opt_method = "none"
    /\ opt_tried = <<>>
    /\ opt_ret = NoRet
    /\ defined = FALSE
    /\ InitExt

NextComb == combine_profile_likelihoods

SpecComb == InitComb /\ [][NextComb]_vars

----------------------------------------------------------------------------
(* The combined ranges: claim C10 *)

SetMax(S) == CHOOSE x \in S : \A y \in S : y <= x
SetMin(S) == CHOOSE x \in S : \A y \in S : x <= y

\* the members that constrain key
Constraining(key) ==
    {i \in 1..Len(likelihoods) : key \in DOMAIN likelihoods[i].param_range}

\* C10: the combination's param_range maps each key of at least one member's
\* param_range to (max of the lows, min of the highs) over the members that
\* constrain the key; disjoint member ranges give an entry with low > high
\* and no error; param_needed is the union of the members' param_needed.
C10_CombinedRangeIsIntersection ==
    ret.op = "combine" =>
        /\ ret.status = "returned"
        /\ DOMAIN param_range =
              UNION {DOMAIN likelihoods[i].param_range : i \in 1..Len(likelihoods)}
        /\ \A key \in DOMAIN param_range :
              param_range[key] =
                  <<SetMax({likelihoods[i].param_range[key][1] : i \in Constraining(key)}),
                    SetMin({likelihoods[i].param_range[key][2] : i \in Constraining(key)})>>
        /\ param_needed =
              UNION {likelihoods[i].param_needed : i \in 1..Len(likelihoods)}

\* three members, two of which constrain mu with disjoint valid ranges: the
\* combined entry has low > high
C10_Witness ==
    /\ ret.op = "combine"
    /\ Len(likelihoods) = 3
    /\ Cardinality(Constraining("mu")) = 2
    /\ \A i \in Constraining("mu") :
          likelihoods[i].param_range["mu"][1] <= likelihoods[i].param_range["mu"][2]
    /\ param_range["mu"][1] > param_range["mu"][2]
    /\ "nu" \in DOMAIN param_range

----------------------------------------------------------------------------
(* model-checkpoint.py: evaluation of a term on a flat dictionary *)

\* the callables the aliases name
ApplyFn(f, a) ==
    CASE f = "add" -> a[1] + a[2]
      [] OTHER -> a[1]

\* ModelBase._evaluate_item: the flat keys the evaluation reads
RECURSIVE ItemReads(_)
ItemReads(item) ==
    CASE item.kind = "str" -> {item.name}
      [] item.kind = "tuple" -> UNION {ItemReads(item.elems[i]) : i \in 1..Len(item.elems)}
      [] item.kind = "fn" -> SeqRange(item.args)
      [] OTHER -> {}

\* ModelBase._evaluate_item: the value, when every key read is in inputs
RECURSIVE EvaluateItem(_, _)
EvaluateItem(inputs, item) ==
    CASE item.kind = "str" -> inputs[item.name]
      [] item.kind = "tuple" ->
            [i \in 1..Len(item.elems) |-> EvaluateItem(inputs, item.elems[i])]
      [] item.kind = "fn" -> ApplyFn(item.name, [i \in 1..Len(item.args) |-> inputs[item.args[i]]])
      [] OTHER -> item.val

\* ModelBase._get_values_from_remap raises KeyError: a needed name has no
\* alias in self.remap, or an alias reads a key inputs does not have
ValuesRaise(inputs, remap, names_needed) ==
    \E name \in names_needed :
        \/ name \notin DOMAIN remap
        \/ ~(ItemReads(remap[name]) \subseteq DOMAIN inputs)

GetValuesFromRemap(inputs, remap, names_needed) ==
    [name \in names_needed |-> EvaluateItem(inputs, remap[name])]

\* -0.5 * log(2 * pi) in thousandths
HalfLogTwoPi == 919

\* Gaussian.loglikelihood, as the source writes it (x - mu**2); std is 1.0 in
\* every likelihood explored, so that log(std**2) is 0
GaussianLoglikelihood(arg, obs) ==
    -HalfLogTwoPi - (500 * (4 * obs.x - arg.mu * arg.mu)) \div (arg.std * arg.std)

\* ModelBase.loglikelihood_from_inputs (loglikelihood_from_param in likelihood.py)
TermRaises(term, inputs) ==
    \/ ValuesRaise(inputs, term.remap, ArgNeeded(term.model))
    \/ ValuesRaise(inputs, term.remap, ObsNeeded(term.model))

TermLoglikelihood(term, inputs) ==
    GaussianLoglikelihood(GetValuesFromRemap(inputs, term.remap, ArgNeeded(term.model)),
                          GetValuesFromRemap(inputs, term.remap, ObsNeeded(term.model)))

----------------------------------------------------------------------------
(* likelihood.py: Likelihood.loglikelihood, ProfiledLikelihood *)

\* llh = self._get_param_bound_aux_llh(param); llh += np.sum([...])
LlhRaises(param) ==
    \E tag \in DOMAIN likelihood_entries : TermRaises(likelihood_entries[tag], param)

Llh(param) ==
    GetParamBoundAuxLlh(param_range, param)
        + DictSum([tag \in DOMAIN likelihood_entries |->
                      TermLoglikelihood(likelihood_entries[tag], param)])

\* ProfiledLikelihood._make_param(data, param), as set_data's closure calls it
MakeParam(data, param) == DictUpdate(data, param)

\* self.loglikelihood(param): Likelihood.loglikelihood before set_data, the
\* closure _loglikelihood over the bound data after it
LoglikelihoodRaises(param) == LlhRaises(MakeParam(bound_data.data, param))

Loglikelihood(param) == Llh(MakeParam(bound_data.data, param))

\* the names in the order np.argsort gives them
KeyOrder == <<"mu", "nu", "x">>
SortedKeys(S) == SelectSeq(KeyOrder, LAMBDA k : k \in S)

\* f(param_profiled_array): x = deepcopy(param); x.update(zip(...));
\* self.loglikelihood(x)
ProfiledPoint(param, keys, array) ==
    DictUpdate(param, [k \in SeqRange(keys) |->
                          array[CHOOSE i \in 1..Len(keys) : keys[i] = k]])

\* the values of the profiled parameters an optimizer may end at
MaxFit == 1
FitVals == 0..MaxFit

\* What a strategy can do with the objective -f from the guess: when f raises
\* (a key is missing) the exception leaves the strategy; otherwise it ends
\* valid at some point x with y = -f(x), or without a valid minimum.
StrategyOutcomes(param, keys) ==
    IF LoglikelihoodRaises(ProfiledPoint(param, keys, [i \in 1..Len(keys) |-> 0]))
    THEN {Outcome("raises", <<>>, 0, KeyError)}
    ELSE {Outcome("valid", x, -Loglikelihood(ProfiledPoint(param, keys, x)), "none")
              : x \in [1..Len(keys) -> FitVals]}
            \cup {Outcome("invalid", <<>>, 0, "none")}

ProfReturned(value, bestfit, nopt) ==
    [status |-> "returned", value |-> value, bestfit |-> bestfit, err |-> "none",
     nopt |-> nopt]
ProfRaised(err, nopt) ==
    [status |-> "raised", value |-> 0, bestfit |-> EmptyDict, err |-> err, nopt |-> nopt]

\* a variant without the branch for an empty guess
ProfiledAlwaysOptimize(param, guess, outs) ==
    LET keys == SortedKeys(DOMAIN guess)
        r == Maximize(outs)
    IN IF r.status = "raised" THEN ProfRaised(r.err, 1)
       ELSE ProfReturned(r.y, [k \in DOMAIN guess |->
                                  r.x[CHOOSE i \in 1..Len(keys) : keys[i] = k]], 1)

\* profiled_loglikelihood(param, param_profiled_guess, True): (max_llh,
\* bestfit) or the error raised, and the number of maximize calls (nopt);
\* outs is what the two strategies do
ProfiledLoglikelihood(param, guess, outs) ==
    IF guess = EmptyDict
    THEN IF LoglikelihoodRaises(param) THEN ProfRaised(KeyError, 0)
         ELSE ProfReturned(Loglikelihood(param), EmptyDict, 0)
    ELSE LET keys == SortedKeys(DOMAIN guess)
             r == Maximize(outs)
         IN IF r.status = "raised" THEN ProfRaised(r.err, 1)
            ELSE ProfReturned(r.y, [k \in DOMAIN guess |->
                                       r.x[CHOOSE i \in 1..Len(keys) : keys[i] = k]], 1)

\* a variant in which a missing max_loglikelihood reads as 0.0
Chi2MaxDefaultsToZero(param, guess, rb, outs) ==
    LET r == ProfiledLoglikelihood(param, guess, outs)
    IN IF r.status = "raised" THEN r
       ELSE ProfReturned(2 * (max_loglikelihood.value - r.value), r.bestfit, r.nopt)

\* chi2(param, param_profiled_guess, return_bestfit)
Chi2(param, guess, rb, outs) ==
    LET r == ProfiledLoglikelihood(param, guess, outs)
    IN IF ~rb
       THEN \* self.max_loglikelihood is read before the profiling call
            IF ~max_loglikelihood.set THEN ProfRaised(AttributeError, 0)
            ELSE IF r.status = "raised" THEN r
            ELSE ProfReturned(2 * (max_loglikelihood.value - r.value), EmptyDict, r.nopt)
       ELSE \* the profiling call comes first
            IF r.status = "raised" THEN r
            ELSE IF ~max_loglikelihood.set THEN ProfRaised(AttributeError, r.nopt)
            ELSE ProfReturned(2 * (max_loglikelihood.value - r.value), r.bestfit, r.nopt)

\* the outcome of a call, with its arguments
CallRet(op, param, guess, rb, r) ==
    [op |-> op, param |-> param, guess |-> guess, rb |-> rb,
     status |-> r.status, value |-> r.value, err |-> r.err, nopt |-> r.nopt,
     bestfit |-> IF rb THEN r.bestfit ELSE EmptyDict]

\* what minuit and scipy do in one call of maximize; scipy's outcome is of no
\* consequence when minuit ends valid, and is then taken equal to minuit's
OutcomePairs(param, guess) ==
    LET outs == StrategyOutcomes(param, SortedKeys(DOMAIN guess))
    IN IF guess = EmptyDict THEN {<<Outcome("invalid", <<>>, 0, "none"),
                                    Outcome("invalid", <<>>, 0, "none")>>}
       ELSE {pair \in outs \X outs : pair[1].kind = "valid" => pair[2] = pair[1]}

\* a variant that drops the cached maximum when data is bound
set_data_invalidating(data) ==
    /\ Idle
    /\ bound_data' = BoundTo(data)
    /\ max_loglikelihood' = NoMax
    /\ ret' = [op |-> "set_data", status |-> "returned"]
    /\ UNCHANGED <<likVars, param_range, likelihoods, extVars, optVars>>

\* set_data(data): self.loglikelihood = _loglikelihood, the closure over data
set_data(data) ==
    /\ Idle
    /\ bound_data' = BoundTo(data)
    /\ ret' = [op |-> "set_data", status |-> "returned"]
    /\ UNCHANGED <<likVars, param_range, max_loglikelihood, likelihoods, extVars, optVars>>

profiled_loglikelihood(param, guess, rb) ==
    /\ Idle
    /\ \E outs \in OutcomePairs(param, guess) :
          ret' = CallRet("profiled_loglikelihood", param, guess, rb,
                         ProfiledLoglikelihood(param, guess, outs))
    /\ UNCHANGED <<likVars, param_range, profVars, likelihoods, extVars, optVars>>

\* a variant that drops the cached maximum when the profiling fails
set_max_loglikelihood_clearing(guess) ==
    /\ Idle
    /\ \E outs \in OutcomePairs(EmptyDict, guess) :
          LET r == ProfiledLoglikelihood(EmptyDict, guess, outs)
          IN /\ ret' = CallRet("set_max_loglikelihood", EmptyDict, guess, TRUE, r)
             /\ max_loglikelihood' = IF r.status = "returned" THEN MaxIs(r.value)
                                     ELSE NoMax
    /\ UNCHANGED <<likVars, param_range, bound_data, likelihoods, extVars, optVars>>

\* self.max_loglikelihood, bestfit = self.profiled_loglikelihood({}, guess, True)
set_max_loglikelihood(guess) ==
    /\ Idle
    /\ \E outs \in OutcomePairs(EmptyDict, guess) :
          LET r == ProfiledLoglikelihood(EmptyDict, guess, outs)
          IN /\ ret' = CallRet("set_max_loglikelihood", EmptyDict, guess, TRUE, r)
             /\ max_loglikelihood' = IF r.status = "returned" THEN MaxIs(r.value)
                                     ELSE max_loglikelihood
    /\ UNCHANGED <<likVars, param_range, bound_data, likelihoods, extVars, optVars>>

chi2(param, guess, rb) ==
    /\ Idle
    /\ \E outs \in OutcomePairs(param, guess) :
          ret' = CallRet("chi2", param, guess, rb, Chi2(param, guess, rb, outs))
    /\ UNCHANGED <<likVars, param_range, profVars, likelihoods, extVars, optVars>>

\* The likelihood explored: two Gaussian terms over the free parameters mu
\* and nu and the observable x of the data, and a range on mu.
ProfItems ==
    << Item("sig", "Gaussian", [mu |-> Str("mu"), std |-> StdOne], [x |-> Str("x")]),
       Item("anc", "Gaussian", [mu |-> Fn("add", <<"mu", "nu">>), std |-> StdOne],
                               [x |-> Lit(4)]) >>

\* the arguments of the calls: mu fixed or left out, nu fixed at 0.0 or left
\* out, nothing or nu profiled from the guess 0.0; set_max_loglikelihood may
\* also profile both mu and nu
FixedParams ==
    {p \in Dicts({"mu", "nu"}, FitVals) :
        "nu" \in DOMAIN p => ("mu" \in DOMAIN p /\ p["nu"] = 0)}
Guesses == {EmptyDict, [k \in {"nu"} |-> 0]}
MaxGuesses == Guesses \cup {[k \in {"mu", "nu"} |-> 0]}
\* the two data sets that get bound: x = 0.25 and x = 0.5
DataSets == {[k \in {"x"} |-> v] : v \in {1, 2}}

InitProf ==
    /\ likelihood_entries =
          [tag \in {ProfItems[i].tag : i \in 1..Len(ProfItems)} |->
              LET item == ProfItems[CHOOSE i \in 1..Len(ProfItems) : ProfItems[i].tag = tag]
              IN NewModel(item.model, [arg |-> item.arg, obs |-> item.obs])]
    /\ param_needed = {"mu", "nu", "x"}
    /\ param_range = [k \in {"mu"} |-> <<1, MaxBound>>]
    /\ bound_data = NoData
    /\ max_loglikelihood = NoMax
    /\ ret = NoRet
    /\ pending = <<>>
    /\ likelihoods = <<>>
    /\ opt_pc = "idle"
    /\ opt_method = "none"
    /\ opt_tried = <<>>
    /\ opt_ret = NoRet
    /\ defined = TRUE
    /\ InitExt

NextProf ==
    \/ \E data \in DataSets : set_data(data)
    \/ \E param \in FixedParams, guess \in Guesses, rb \in BOOLEAN :
          profiled_loglikelihood(param, guess, rb)
    \/ \E guess \in MaxGuesses : set_max_loglikelihood(guess)
    \/ \E param \in FixedParams, guess \in Guesses, rb \in BOOLEAN :
          chi2(param, guess, rb)

SpecProf == InitProf /\ [][NextProf]_vars

----------------------------------------------------------------------------
(* Profiling: claims C3, C4, C5 *)

\* C3: while set_max_loglikelihood has never succeeded in setting the
\* attribute, chi2 ends with an error for either value of return_bestfit and
\* any arguments, and never returns a value; with return_bestfit unset the
\* error is the missing attribute's, raised before any profiling.
C3_Chi2BeforeMaxRaises ==
    (ret.op = "chi2" /\ ~max_loglikelihood.set) =>
        /\ ret.status = "raised"
        /\ ret.err \in {AttributeError, KeyError, AllFail}
        /\ ~ret.rb => (ret.err = AttributeError /\ ret.nopt = 0)

\* chi2 with return_bestfit set, on bound data, before any maximum: the
\* profiling ran and found a best fit, and the call raised all the same
C3_Witness ==
    /\ ret.op = "chi2"
    /\ ~max_loglikelihood.set
    /\ bound_data.bound
    /\ ret.rb
    /\ ret.nopt = 1
    /\ ret.status = "raised"
    /\ ret.err = AttributeError

ProfilingOps == {"profiled_loglikelihood", "set_max_loglikelihood", "chi2"}

\* C4: a profiling call that fails raises, returns no value, and leaves the
\* likelihood as it was: the cached maximum, the bound data, param_range,
\* param_needed and the terms.
C4_FailedCallChangesNothing ==
    [][(ret'.op \in ProfilingOps /\ ret'.status = "raised") =>
          /\ UNCHANGED <<max_loglikelihood, bound_data, param_range, param_needed,
                         likelihood_entries>>
          /\ ret'.value = 0
          /\ ret'.bestfit = EmptyDict]_vars

\* set_max_loglikelihood failed (the optimizers failed, or the objective
\* raised) on a likelihood that had a cached maximum, which is still there
C4_Witness ==
    /\ ret.op = "set_max_loglikelihood"
    /\ ret.status = "raised"
    /\ ret.nopt = 1
    /\ max_loglikelihood.set
    /\ bound_data.bound

\* C5: profiled_loglikelihood(fixed, {}) returns loglikelihood(fixed), with an
\* empty best fit when return_bestfit is set, and never calls the optimizer
\* (it raises what loglikelihood(fixed) raises).
C5_EmptyProfileShortCircuit ==
    (ret.op = "profiled_loglikelihood" /\ ret.guess = EmptyDict) =>
        /\ ret.nopt = 0
        /\ ret.bestfit = EmptyDict
        /\ IF LoglikelihoodRaises(ret.param)
           THEN ret.status = "raised" /\ ret.err = KeyError
           ELSE ret.status = "returned" /\ ret.value = Loglikelihood(ret.param)

\* an empty profile on bound data, mu fixed below its range: the value is
\* the likelihood there, penalty included
C5_Witness ==
    /\ ret.op = "profiled_loglikelihood"
    /\ ret.guess = EmptyDict
    /\ ret.rb
    /\ ret.status = "returned"
    /\ DOMAIN ret.param = {"mu", "nu"}
    /\ ret.param["mu"] < param_range["mu"][1]
    /\ ret.value = Loglikelihood(ret.param)
    /\ ret.bestfit = EmptyDict

----------------------------------------------------------------------------
(* Re-binding data: claim C13 *)

\* the maxima set_max_loglikelihood can cache on the data bound now
FreshMaxima ==
    UNION {{ProfiledLoglikelihood(EmptyDict, guess, outs).value :
               outs \in {o \in OutcomePairs(EmptyDict, guess) :
                   ProfiledLoglikelihood(EmptyDict, guess, o).status = "returned"}} :
           guess \in MaxGuesses}

\* C13: set_data changes only the bound closure: the cached maximum keeps its
\* value (neither cleared nor recomputed), param_range, param_needed and the
\* terms are unchanged; a chi2 call made while a maximum is cached does not
\* fail for a missing maximum, and what it returns is twice the difference
\* between that cached value and the profiled likelihood on the data bound now.
C13_SetDataKeepsStaleMax ==
    [][/\ ret'.op = "set_data" =>
              /\ bound_data'.bound
              /\ UNCHANGED <<max_loglikelihood, param_range, param_needed,
                             likelihood_entries>>
       /\ (ret'.op = "chi2" /\ max_loglikelihood.set) =>
              /\ UNCHANGED <<max_loglikelihood, bound_data>>
              /\ ret'.err # AttributeError
              /\ ret'.status = "returned" =>
                     \E outs \in OutcomePairs(ret'.param, ret'.guess) :
                        LET r == ProfiledLoglikelihood(ret'.param, ret'.guess, outs)
                        IN /\ r.status = "returned"
                           /\ ret'.value = 2 * (max_loglikelihood.value - r.value)]_vars

\* chi2 returned on re-bound data while the cached maximum is one that
\* set_max_loglikelihood cannot produce on the data bound now: it is stale
C13_Witness ==
    /\ ret.op = "chi2"
    /\ ret.status = "returned"
    /\ bound_data.bound
    /\ max_loglikelihood.set
    /\ max_loglikelihood.value \notin FreshMaxima
    /\ ret.nopt = 1

----------------------------------------------------------------------------
(* Unknown argument names: claim C14 *)

\* the 'arg' mapping of the spec has a name the model does not declare
UnknownArg(item) == \E name \in DOMAIN item.arg : name \notin ArgNeeded(item.model)

\* the specs of config with such a name
UnknownArgSpecs(config) == {i \in 1..Len(config) : UnknownArg(config[i])}

\* C14: a term spec whose 'arg' mapping has a name outside the model's
\* declared argument names is rejected while the Likelihood is defined:
\* set_likelihood raises at the first such spec and never returns, no term
\* is built for it or for a later spec, and no held term carries an
\* undeclared argument name that an evaluation could meet.
C14_UnknownArgRejectedAtConstruction ==
    ret.op = "set_likelihood" =>
        LET bad == UnknownArgSpecs(ret.config)
            first == CHOOSE i \in bad : \A j \in bad : i <= j
        IN /\ ret.status = "returned" => bad = {}
           /\ ret.status = "raised" =>
                 /\ bad # {}
                 /\ ret.err = AssertionError
                 /\ DOMAIN likelihood_entries
                       = {ret.config[i].tag : i \in 1..(first - 1)}
           /\ (ret.status = "running" /\ bad # {}) =>
                 Len(ret.config) - Len(pending) < first
           /\ \A tag \in DOMAIN likelihood_entries :
                 /\ DOMAIN likelihood_entries[tag].arg_remap
                       \subseteq ArgNeeded(likelihood_entries[tag].model)
                 /\ \E i \in 1..Len(ret.config) :
                       /\ ret.config[i].tag = tag
                       /\ ~UnknownArg(ret.config[i])

\* the third spec of a config names an undeclared argument: the call raised
\* after it had built the two terms before it
C14_Witness ==
    /\ ret.op = "set_likelihood"
    /\ ret.status = "raised"
    /\ ret.err = AssertionError
    /\ UnknownArgSpecs(ret.config) = {3}
    /\ Cardinality(DOMAIN likelihood_entries) = 2
    /\ "anc" \notin DOMAIN likelihood_entries

----------------------------------------------------------------------------
(* model-checkpoint.py: a term is constructed, then resolved on inputs *)

\* the nesting depth of the tuples among the aliases
MaxDepth == 2

\* the aliases that are not tuples: a value, two names, two callables
AtomAliases ==
    {Lit(1), Str("a"), Fn("add", <<"a", "b">>), Fn("id", <<"c">>)}

\* the aliases with tuples nested up to depth d: a tuple holds one alias, or
\* an alias that is not a tuple followed by any alias of depth d - 1
RECURSIVE AliasesUpTo(_)
AliasesUpTo(d) ==
    IF d = 0 THEN AtomAliases
    ELSE AtomAliases
            \cup {Tup(<<e>>) : e \in AliasesUpTo(d - 1)}
            \cup {Tup(<<a, e>>) : a \in AtomAliases, e \in AliasesUpTo(d - 1)}

\* the remaps of a Poisson term: lam is any alias; n is a name, a value, or
\* is left out of remap['obs']
AliasRemaps ==
    {[arg |-> [lam |-> alias], obs |-> obs] :
        alias \in AliasesUpTo(MaxDepth),
        obs \in {[n |-> Str("n")], [n |-> Lit(1)], EmptyDict}}

\* the flat dictionaries a term is resolved on
FlatInputs == Dicts({"a", "b", "c", "n"}, {1})

\* model_class(remap): ModelBase.__init__ and set_remap
set_remap ==
    /\ ret = NoRet
    /\ \E remap \in AliasRemaps :
          likelihood_entries' = [tag \in {"term"} |-> NewModel("Poisson", remap)]
    /\ param_needed' = likelihood_entries'["term"].param_needed
    /\ ret' = [op |-> "set_remap", status |-> "returned"]
    /\ UNCHANGED <<param_range, pending, defined, profVars, likelihoods, extVars, optVars>>

\* get_arg_from_inputs(inputs) and get_obs_from_inputs(inputs) on the term
get_values_from_remap(inputs) ==
    /\ "term" \in DOMAIN likelihood_entries
    /\ LET term == likelihood_entries["term"]
       IN ret' = IF TermRaises(term, inputs)
                 THEN [op |-> "get_values", inputs |-> inputs, status |-> "raised",
                       err |-> KeyError, arg |-> EmptyDict, obs |-> EmptyDict]
                 ELSE [op |-> "get_values", inputs |-> inputs, status |-> "returned",
                       err |-> "none",
                       arg |-> GetValuesFromRemap(inputs, term.remap, ArgNeeded(term.model)),
                       obs |-> GetValuesFromRemap(inputs, term.remap, ObsNeeded(term.model))]
    /\ UNCHANGED <<likVars, param_range, profVars, likelihoods, extVars, optVars>>

InitAlias == InitIdle

NextAlias ==
    \/ set_remap
    \/ \E inputs \in FlatInputs : get_values_from_remap(inputs)

SpecAlias == InitAlias /\ [][NextAlias]_vars

----------------------------------------------------------------------------
(* The needed names of a term: claim C15 *)

\* the remap of the term defines every declared arg and obs name
RemapComplete(term) ==
    (ArgNeeded(term.model) \cup ObsNeeded(term.model)) \subseteq DOMAIN term.remap

\* the nesting depth of an alias
RECURSIVE Depth(_)
Depth(alias) ==
    IF alias.kind # "tuple" THEN 0
    ELSE 1 + Max2(Depth(alias.elems[1]), Depth(alias.elems[Len(alias.elems)]))

\* C15: for a term whose remap defines all declared arg and obs names, with
\* aliases built from values, names, callables and nested tuples of these,
\* resolving the arguments and the observables on a flat dictionary that has
\* every name of the term's needed set never fails for a missing key.
C15_NeededCoversReads ==
    (/\ ret.op = "get_values"
     /\ RemapComplete(likelihood_entries["term"])
     /\ likelihood_entries["term"].param_needed \subseteq DOMAIN ret.inputs) =>
        /\ ret.status = "returned"
        /\ DOMAIN ret.arg = ArgNeeded(likelihood_entries["term"].model)
        /\ DOMAIN ret.obs = ObsNeeded(likelihood_entries["term"].model)

\* a term whose lam is a tuple nested twice with callables inside, resolved
\* on a dictionary that has exactly the needed names
C15_Witness ==
    /\ ret.op = "get_values"
    /\ ret.status = "returned"
    /\ RemapComplete(likelihood_entries["term"])
    /\ Depth(likelihood_entries["term"].remap["lam"]) = 2
    /\ likelihood_entries["term"].param_needed = {"a", "b", "c", "n"}
    /\ DOMAIN ret.inputs = likelihood_entries["term"].param_needed

----------------------------------------------------------------------------
(* likelihood.py: set_likelihood and set_param_range on one object *)

InitRange == InitIdle

NextRange ==
    \/ \E config \in Configs : set_likelihood_begin(config)
    \/ set_likelihood_item
    \/ \E r \in Dicts(PenKeys, Ranges) : set_param_range(r)

SpecRange == InitRange /\ [][NextRange]_vars

----------------------------------------------------------------------------
(* The ranges of a Likelihood: claim C18 *)

\* C18: set_likelihood resets param_range to empty, however it ends, and the
\* ranges set before it are gone; a set_param_range call that returns gives
\* every key it mentions the bound it names, leaves the entries of the other
\* keys as they were and adds no other key.  (Hence param_range maps each key
\* to the bound of the most recent set_param_range call that mentioned it
\* since the last set_likelihood, and holds no other key.)
C18_RangeIsLatestSinceSetLikelihood ==
    [][/\ ret'.op = "set_likelihood" => param_range' = EmptyDict
       /\ (ret'.op = "set_param_range" /\ ret'.status = "returned") =>
              /\ DOMAIN param_range' = (DOMAIN param_range) \cup (DOMAIN ret'.new_range)
              /\ \A key \in DOMAIN param_range' :
                    param_range'[key] = IF key \in DOMAIN ret'.new_range
                                        THEN ret'.new_range[key]
                                        ELSE param_range[key]
       /\ (ret'.op = "set_param_range" /\ ret'.status = "raised") =>
              (~defined /\ param_range' = param_range)]_vars

\* after a set_likelihood that held a term, a call has set mu and a later
\* call has set nu to another bound: both entries are there
C18_Witness ==
    /\ ret.op = "set_param_range"
    /\ ret.status = "returned"
    /\ likelihood_entries # EmptyDict
    /\ DOMAIN ret.new_range = {"nu"}
    /\ DOMAIN param_range = {"mu", "nu"}
    /\ param_range["nu"] = ret.new_range["nu"]
    /\ param_range["mu"] # param_range["nu"]

----------------------------------------------------------------------------
(* config.py: Config, Constant.build, Template.build and _cached_configs *)

\* the default of a Config declared without one (the sentinel of config.py)
NoDefault == "<omitted>"

ValueError == "ValueError"
LoadError == "LoadError"

\* Config(name, default): the declarations explored.  Two Constants and a
\* Template share the name er with different defaults, two Templates share
\* nr, and one Constant has no default.
Declared(kind, name, default) == [kind |-> kind, name |-> name, default |-> default]

ConfigObjects ==
    { Declared("Constant", "er", "d1"),
      Declared("Constant", "er", "d2"),
      Declared("Template", "er", "t1"),
      Declared("Template", "nr", "t1"),
      Declared("Template", "nr", "t2"),
      Declared("Constant", "nr", NoDefault) }

\* get_file_path(default): the path the default names
GetFilePath(default) ==
    CASE default = "t1" -> "/data/t1"
      [] default = "t2" -> "/data/t2"
      [] default = "d1" -> "/data/d1"
      [] default = "d2" -> "/data/d2"
      [] OTHER -> "/data"

\* Config.get_default raises ValueError when default is the sentinel
GetDefaultRaises(obj) == obj.default = NoDefault

\* what build has set on an instance: value (Constant), file_path and hist
\* (Template)
Unset == "<unset>"
Built(value, file_path, hist) == [value |-> value, file_path |-> file_path, hist |-> hist]

SetAttrs(obj, attrs) ==
    [o \in (DOMAIN configs) \cup {obj} |-> IF o = obj THEN attrs ELSE configs[o]]

AttrsOf(obj) == IF obj \in DOMAIN configs THEN configs[obj] ELSE Built(Unset, Unset, Unset)

BuildRet(obj, hit, status, err) ==
    [op |-> "build", obj |-> obj, hit |-> hit, status |-> status, err |-> err]

\* a variant that stores the instance's own default at every build
Constant_build_overwriting(obj) ==
    /\ obj.kind = "Constant"
    /\ IF GetDefaultRaises(obj)
       THEN /\ ret' = BuildRet(obj, FALSE, "raised", ValueError)
            /\ UNCHANGED cfgVars
       ELSE /\ cached_configs' = DictUpdate(cached_configs, [n \in {obj.name} |-> obj.default])
            /\ configs' = SetAttrs(obj, [AttrsOf(obj) EXCEPT !.value = obj.default])
            /\ ret' = BuildRet(obj, FALSE, "returned", "none")
    /\ UNCHANGED <<likVars, param_range, profVars, likelihoods, optVars, cmVars>>

\* Constant.build
Constant_build(obj) ==
    /\ obj.kind = "Constant"
    /\ IF obj.name \in DOMAIN cached_configs
       THEN /\ configs' = SetAttrs(obj, [AttrsOf(obj) EXCEPT !.value = cached_configs[obj.name]])
            /\ ret' = BuildRet(obj, TRUE, "returned", "none")
            /\ UNCHANGED cached_configs
       ELSE IF GetDefaultRaises(obj)
       THEN /\ ret' = BuildRet(obj, FALSE, "raised", ValueError)
            /\ UNCHANGED cfgVars
       ELSE /\ cached_configs' = DictUpdate(cached_configs, [n \in {obj.name} |-> obj.default])
            /\ configs' = SetAttrs(obj, [AttrsOf(obj) EXCEPT !.value = obj.default])
            /\ ret' = BuildRet(obj, FALSE, "returned", "none")
    /\ UNCHANGED <<likVars, param_range, profVars, likelihoods, optVars, cmVars>>

\* Template.build; found: get_file_path finds the file, loaded:
\* template_to_multihist reads a histogram from self.file_path
Template_build(obj, found, loaded) ==
    /\ obj.kind = "Template"
    /\ IF obj.name \in DOMAIN cached_configs
       THEN /\ UNCHANGED cached_configs
            /\ configs' = SetAttrs(obj,
                  [AttrsOf(obj) EXCEPT !.file_path = cached_configs[obj.name],
                                       !.hist = IF loaded THEN cached_configs[obj.name]
                                                ELSE AttrsOf(obj).hist])
            /\ ret' = IF loaded THEN BuildRet(obj, TRUE, "returned", "none")
                      ELSE BuildRet(obj, TRUE, "raised", LoadError)
       ELSE IF GetDefaultRaises(obj)
       THEN /\ ret' = BuildRet(obj, FALSE, "raised", ValueError)
            /\ UNCHANGED cfgVars
       ELSE IF ~found
       THEN /\ ret' = BuildRet(obj, FALSE, "raised", LoadError)
            /\ UNCHANGED cfgVars
       ELSE /\ cached_configs' =
                  DictUpdate(cached_configs, [n \in {obj.name} |-> GetFilePath(obj.default)])
            /\ configs' = SetAttrs(obj,
                  [AttrsOf(obj) EXCEPT !.file_path = GetFilePath(obj.default),
                                       !.hist = IF loaded THEN GetFilePath(obj.default)
                                                ELSE AttrsOf(obj).hist])
            /\ ret' = IF loaded THEN BuildRet(obj, FALSE, "returned", "none")
                      ELSE BuildRet(obj, FALSE, "raised", LoadError)
    /\ UNCHANGED <<likVars, param_range, profVars, likelihoods, optVars, cmVars>>

InitCfg == InitIdle

NextCfg ==
    \/ \E obj \in ConfigObjects : Constant_build(obj)
    \/ \E obj \in ConfigObjects, found \in BOOLEAN, loaded \in BOOLEAN :
          Template_build(obj, found, loaded)

SpecCfg == InitCfg /\ [][NextCfg]_vars

----------------------------------------------------------------------------
(* The named-config cache: claim C16 *)

\* what a build resolves the instance's own default to
Resolved(obj) ==
    IF obj.kind = "Constant" THEN obj.default ELSE GetFilePath(obj.default)

\* what a build has taken as the instance's value
Taken(obj, attrs) == IF obj.kind = "Constant" THEN attrs.value ELSE attrs.file_path

\* C16: the cache is write-once per key: no build removes or overwrites an
\* entry; the build that adds the entry of a name stores the value it
\* resolved from its own default; a build of a config whose name has an
\* entry takes the cached value, not its own default.
C16_CacheWriteOnce ==
    [][/\ \A name \in DOMAIN cached_configs :
             /\ name \in DOMAIN cached_configs'
             /\ cached_configs'[name] = cached_configs[name]
       /\ ret'.op = "build" =>
             /\ (DOMAIN cached_configs') \ (DOMAIN cached_configs) \subseteq {ret'.obj.name}
             /\ ret'.obj.name \in DOMAIN cached_configs =>
                    /\ ret'.hit
                    /\ Taken(ret'.obj, configs'[ret'.obj]) = cached_configs[ret'.obj.name]
             /\ (ret'.obj.name \notin DOMAIN cached_configs
                     /\ ret'.obj.name \in DOMAIN cached_configs') =>
                    /\ cached_configs'[ret'.obj.name] = Resolved(ret'.obj)
                    /\ Taken(ret'.obj, configs'[ret'.obj]) = Resolved(ret'.obj)]_vars

\* a Constant was built after another config of its name: it holds the
\* cached value of the first build, which is not what its own default gives
C16_Witness ==
    /\ ret.op = "build"
    /\ ret.status = "returned"
    /\ ret.hit
    /\ ret.obj.kind = "Constant"
    /\ configs[ret.obj].value = cached_configs[ret.obj.name]
    /\ configs[ret.obj].value # Resolved(ret.obj)
    /\ Cardinality(DOMAIN cached_configs) = 2

----------------------------------------------------------------------------
(* parallel.py: compute_many and the units of the pool *)

\* the number of hashes of a call, and the largest n_cpus
MaxHashes == 3
MaxCpus == 2

\* everything compute_many and the pool leave alone
notCm == <<likVars, param_range, profVars, ret, likelihoods, optVars, cfgVars>>

\* The unit submitted for the i-th hash is queued until a worker takes it,
\* running until its pipeline call ends, then ok or error (the call raised).
UnitsIn(state) == {u \in 1..Len(units) : units[u] = state}

UnitError == "UnitError"

CmRet(n, n_cpus, status, err) ==
    [op |-> "compute_many", n |-> n, n_cpus |-> n_cpus, status |-> status, err |-> err]

\* compute_many(pipeline, hashes, n_cpus) is entered with n hashes;
\* ProcessPoolExecutor(max_workers=n_cpus) raises ValueError for n_cpus <= 0
compute_many(n, n_cpus) ==
    /\ cm_pc = "idle"
    /\ IF n_cpus = 1
       THEN cm_pc' = "serial" /\ cm_ret' = CmRet(n, n_cpus, "running", "none")
       ELSE IF n_cpus <= 0
       THEN cm_pc' = "raised" /\ cm_ret' = CmRet(n, n_cpus, "raised", ValueError)
       ELSE cm_pc' = "submit" /\ cm_ret' = CmRet(n, n_cpus, "running", "none")
    /\ UNCHANGED <<units, futures, done_is, f_i, pbar, notCm>>

\* n_cpus = 1: for h in tqdm(hashes): pipeline(*args, hash=h, **kwargs), in
\* the calling process; ok: the call of the pipeline returns
serial_unit(ok) ==
    /\ cm_pc = "serial"
    /\ IF Len(units) = cm_ret.n
       THEN /\ cm_pc' = "returned"
            /\ cm_ret' = [cm_ret EXCEPT !.status = "returned"]
            /\ UNCHANGED <<units, pbar>>
       ELSE IF ok
       THEN /\ units' = Append(units, "ok")
            /\ pbar' = pbar + 1
            /\ UNCHANGED <<cm_pc, cm_ret>>
       ELSE /\ units' = Append(units, "error")
            /\ cm_pc' = "raised"
            /\ cm_ret' = [cm_ret EXCEPT !.status = "raised", !.err = UnitError]
            /\ UNCHANGED pbar
    /\ UNCHANGED <<futures, done_is, f_i, notCm>>

\* for h in hashes: futures.append(pool.submit(pipeline, ..., hash=h, ...))
submit ==
    /\ cm_pc = "submit"
    /\ IF Len(units) < cm_ret.n
       THEN /\ units' = Append(units, "queued")
            /\ futures' = Append(futures, Len(units) + 1)
            /\ UNCHANGED cm_pc
       ELSE /\ cm_pc' = "while"
            /\ UNCHANGED <<units, futures>>
    /\ UNCHANGED <<done_is, f_i, pbar, cm_ret, notCm>>

\* while len(futures): _done_is = []; the call returns when the list is empty
while_futures ==
    /\ cm_pc = "while"
    /\ IF futures = <<>>
       THEN /\ cm_pc' = "returned"
            /\ cm_ret' = [cm_ret EXCEPT !.status = "returned"]
            /\ UNCHANGED <<done_is, f_i>>
       ELSE /\ cm_pc' = "for"
            /\ done_is' = {}
            /\ f_i' = 1
            /\ UNCHANGED cm_ret
    /\ UNCHANGED <<units, futures, pbar, notCm>>

\* one iteration of "for f_i, f in enumerate(futures)": if f.done():
\* f.result(); _done_is.append(f_i); pbar.update(1)
check_future ==
    /\ cm_pc = "for"
    /\ f_i <= Len(futures)
    /\ LET state == units[futures[f_i]]
       IN IF state = "error"
          THEN /\ cm_pc' = "raised"
               /\ cm_ret' = [cm_ret EXCEPT !.status = "raised", !.err = UnitError]
               /\ UNCHANGED <<done_is, f_i, pbar>>
          ELSE IF state = "ok"
          THEN /\ done_is' = done_is \cup {f_i}
               /\ pbar' = pbar + 1
               /\ f_i' = f_i + 1
               /\ UNCHANGED <<cm_pc, cm_ret>>
          ELSE /\ f_i' = f_i + 1
               /\ UNCHANGED <<cm_pc, cm_ret, done_is, pbar>>
    /\ UNCHANGED <<units, futures, notCm>>

\* a variant that keeps the futures found done in the list
filter_futures_keeping ==
    /\ cm_pc = "for"
    /\ f_i > Len(futures)
    /\ futures' = futures
    /\ cm_pc' = "while"
    /\ UNCHANGED <<units, done_is, f_i, pbar, cm_ret, notCm>>

\* futures = [f for f_i, f in enumerate(futures) if not f_i in _done_is];
\* time.sleep(0.1)
filter_futures ==
    /\ cm_pc = "for"
    /\ f_i > Len(futures)
    /\ LET kept == SelectSeq([i \in 1..Len(futures) |-> <<i, futures[i]>>],
                             LAMBDA e : e[1] \notin done_is)
       IN futures' = [i \in 1..Len(kept) |-> kept[i][2]]
    /\ cm_pc' = "while"
    /\ UNCHANGED <<units, done_is, f_i, pbar, cm_ret, notCm>>

\* a worker of the pool takes the oldest queued unit: at most n_cpus run
worker_start ==
    /\ UnitsIn("queued") # {}
    /\ cm_pc # "serial"
    /\ Cardinality(UnitsIn("running")) < cm_ret.n_cpus
    /\ LET u == CHOOSE q \in UnitsIn("queued") : \A r \in UnitsIn("queued") : q <= r
       IN units' = [units EXCEPT ![u] = "running"]
    /\ UNCHANGED <<cm_pc, futures, done_is, f_i, pbar, cm_ret, notCm>>

\* the pipeline call of a running unit ends: it returned, or it raised
worker_finish(u, ok) ==
    /\ u \in UnitsIn("running")
    /\ units' = [units EXCEPT ![u] = IF ok THEN "ok" ELSE "error"]
    /\ UNCHANGED <<cm_pc, futures, done_is, f_i, pbar, cm_ret, notCm>>

InitCm == InitIdle

NextCm ==
    \/ \E n \in 0..MaxHashes, n_cpus \in 0..MaxCpus : compute_many(n, n_cpus)
    \/ \E ok \in BOOLEAN : serial_unit(ok)
    \/ submit
    \/ while_futures
    \/ check_future
    \/ filter_futures
    \/ worker_start
    \/ \E u \in 1..MaxHashes, ok \in BOOLEAN : worker_finish(u, ok)

SpecCm == InitCm /\ [][NextCm]_vars

----------------------------------------------------------------------------
(* compute_many with a pool: claim C17 *)

\* the units the progress bar has counted: those taken off futures, and
\* during a pass those whose index is in _done_is
CountedUnits ==
    {u \in 1..Len(units) : \A i \in 1..Len(futures) : futures[i] # u}
        \cup (IF cm_pc \in {"for", "raised"} THEN {futures[i] : i \in done_is} ELSE {})

\* C17: with a pool (n_cpus > 1) compute_many submits one unit per hash and
\* none later (no retry); it returns only when every unit has ended without
\* error, with each of them counted once by the progress bar, in whatever
\* order they ended; the bar counts each ended unit at most once and only
\* units that ended without error; the call raises only the error of a
\* unit that failed, and neither raising nor anything after it cancels or
\* changes a unit that is queued or running.
C17_PoolRunsEachUnitOnce ==
    [][(cm_pc' # "idle" /\ cm_ret'.n_cpus > 1) =>
          /\ Len(units') <= cm_ret'.n
          /\ cm_pc' # "submit" => Len(units') = cm_ret'.n
          /\ \A i, j \in 1..Len(futures') :
                /\ futures'[i] \in 1..Len(units')
                /\ i # j => futures'[i] # futures'[j]
          /\ cm_pc' = "returned" =>
                /\ \A u \in 1..cm_ret'.n : units'[u] = "ok"
                /\ pbar' = cm_ret'.n
          /\ pbar' = Cardinality(CountedUnits')
          /\ \A u \in CountedUnits' : units'[u] = "ok"
          /\ cm_pc' = "raised" =>
                /\ cm_ret'.err = UnitError
                /\ \E u \in 1..Len(units') : units'[u] = "error"
          /\ (cm_pc' = "raised" /\ cm_pc # "raised") => units' = units
          /\ cm_pc = "raised" =>
                /\ Len(units') = Len(units)
                /\ \A u \in 1..Len(units) :
                      /\ units[u] \in {"ok", "error"} => units'[u] = units[u]
                      /\ units'[u] \in {"queued", "running", "ok", "error"}
                      /\ units[u] = "running" => units'[u] # "queued"]_vars

\* three hashes on two workers: the second unit ended first and was counted,
\* the first failed and its error left the call, the third is still running
C17_Witness ==
    /\ cm_pc = "raised"
    /\ cm_ret.n_cpus = 2
    /\ cm_ret.n = 3
    /\ units = <<"error", "ok", "running">>
    /\ pbar = 1
    /\ cm_ret.err = UnitError

----------------------------------------------------------------------------
(* likelihood.py: a CombinedProfiledLikelihood and the data of its members *)

NotImplementedError == "NotImplementedError"

\* A member: a ProfiledLikelihood with one Gaussian term over the free
\* parameter mu and the observable obs of its data, a param_range, the data
\* its loglikelihood is bound to, and a simulate method (sim is "toy"), or
\* none of its own (ProfiledLikelihood.simulate raises NotImplementedError).
ToyMember(obs, range, sim) ==
    [param_needed |-> {"mu", obs},
     param_range |-> range,
     likelihood_entries |->
        [tag \in {"sig"} |->
            NewModel("Gaussian", [arg |-> [mu |-> Str("mu"), std |-> StdOne],
                                  obs |-> [x |-> Str(obs)]])],
     bound_data |-> NoData,
     obs |-> obs,
     sim |-> sim]

\* the combinations explored: two members sharing the range of mu, two
\* members simulating the same key x, three members, one member without a
\* simulate method, a single member
ToyCombinations ==
    LET shared == [k \in {"mu"} |-> <<1, MaxBound>>]
        a == ToyMember("x", shared, "toy")
        b == ToyMember("y", shared, "toy")
        c == ToyMember("x", EmptyDict, "toy")
        d == ToyMember("y", EmptyDict, "unimplemented")
    IN {<<a, b>>, <<a, c>>, <<a, b, c>>, <<b, d, a>>, <<a>>}

\* the values a toy Monte Carlo draws for an observable
ToyVals == {1, 2}

\* member.loglikelihood(param): Likelihood.loglikelihood before the member's
\* set_data, the closure over the member's data after it
MemberRaises(member, param) ==
    \E tag \in DOMAIN member.likelihood_entries :
        TermRaises(member.likelihood_entries[tag], MakeParam(member.bound_data.data, param))

MemberLoglikelihood(member, param) ==
    LET p == MakeParam(member.bound_data.data, param)
    IN GetParamBoundAuxLlh(member.param_range, p)
           + DictSum([tag \in DOMAIN member.likelihood_entries |->
                         TermLoglikelihood(member.likelihood_entries[tag], p)])

\* a variant without the combined object's own penalty
CombinedLlhMembersOnly(members, param, n) ==
    DictSum([i \in 1..n |-> MemberLoglikelihood(members[i], param)])

\* CombinedProfiledLikelihood.loglikelihood: llh after the first n members
RECURSIVE CombinedLlh(_, _, _)
CombinedLlh(members, param, n) ==
    IF n = 0 THEN GetParamBoundAuxLlh(param_range, param)
    ELSE CombinedLlh(members, param, n - 1) + MemberLoglikelihood(members[n], param)

\* member.simulate(param) raises: no simulate method, or the term's argument
\* mu is not in param
SimulateRaises(member, param) ==
    member.sim = "unimplemented" \/ "mu" \notin DOMAIN param

SimulateError(member) ==
    IF member.sim = "unimplemented" THEN NotImplementedError ELSE KeyError

\* CombinedProfiledLikelihood.simulate: data after the first n members, each
\* member's sample merged with data.update(_data)
RECURSIVE SimulateData(_, _)
SimulateData(samples, n) ==
    IF n = 0 THEN EmptyDict ELSE DictUpdate(SimulateData(samples, n - 1), samples[n])

\* the members whose simulate is called: all up to the first that raises
SimulateCalled(members, param) ==
    {i \in 1..Len(members) : \A j \in 1..(i - 1) : ~SimulateRaises(members[j], param)}

\* what the members' simulate calls can return
SampleLists(members) ==
    {samples \in [1..Len(members) -> UNION {[{k} -> ToyVals] : k \in {"x", "y"}}] :
        \A i \in 1..Len(members) : DOMAIN samples[i] = {members[i].obs}}

ToyRet(param, status, err, data, samples, called) ==
    [op |-> "set_data_from_toymc", param |-> param, status |-> status, err |-> err,
     data |-> data, samples |-> samples,
     nsim |-> [i \in 1..Len(likelihoods) |-> IF i \in called THEN 1 ELSE 0]]

\* a variant that binds each member to its own sample
set_data_from_toymc_separately(param) ==
    /\ \E samples \in SampleLists(likelihoods) :
          /\ likelihoods' = [i \in 1..Len(likelihoods) |->
                                [likelihoods[i] EXCEPT !.bound_data = BoundTo(samples[i])]]
          /\ ret' = ToyRet(param, "returned", "none",
                           SimulateData(samples, Len(likelihoods)), samples,
                           1..Len(likelihoods))
    /\ UNCHANGED <<likVars, param_range, profVars, extVars, optVars>>

\* CombinedProfiledLikelihood.set_data_from_toymc(param)
set_data_from_toymc(param) ==
    /\ LET called == SimulateCalled(likelihoods, param)
       IN IF \E i \in called : SimulateRaises(likelihoods[i], param)
          THEN /\ ret' = ToyRet(param, "raised",
                                SimulateError(likelihoods[CHOOSE i \in called :
                                    SimulateRaises(likelihoods[i], param)]),
                                EmptyDict, <<>>, called)
               /\ UNCHANGED likelihoods
          ELSE \E samples \in SampleLists(likelihoods) :
                  LET data == SimulateData(samples, Len(likelihoods))
                  IN /\ likelihoods' = [i \in 1..Len(likelihoods) |->
                                           [likelihoods[i] EXCEPT !.bound_data = BoundTo(data)]]
                     /\ ret' = ToyRet(param, "returned", "none", data, samples, called)
    /\ UNCHANGED <<likVars, param_range, profVars, extVars, optVars>>

\* CombinedProfiledLikelihood.loglikelihood(param)
loglikelihood(param) ==
    /\ ret' = IF \E i \in 1..Len(likelihoods) : MemberRaises(likelihoods[i], param)
              THEN [op |-> "loglikelihood", param |-> param, status |-> "raised",
                    err |-> KeyError, value |-> 0]
              ELSE [op |-> "loglikelihood", param |-> param, status |-> "returned",
                    err |-> "none",
                    value |-> CombinedLlh(likelihoods, param, Len(likelihoods))]
    /\ UNCHANGED <<likVars, param_range, profVars, likelihoods, extVars, optVars>>

\* the caller binds data to one member: likelihoods[i].set_data(data)
member_set_data(i, data) ==
    /\ i \in 1..Len(likelihoods)
    /\ likelihoods' = [likelihoods EXCEPT ![i].bound_data = BoundTo(data)]
    /\ ret' = [op |-> "member_set_data", status |-> "returned"]
    /\ UNCHANGED <<likVars, param_range, profVars, extVars, optVars>>

\* the flat dictionaries the combination is evaluated on: mu alone, or mu
\* with the observables
ToyParams ==
    Dicts({"mu"}, Vals)
        \cup {[k \in {"mu", "x", "y"} |-> IF k = "mu" THEN v ELSE 1] : v \in Vals}

\* the data a caller binds to a member by hand
EarlierData == [k \in {"x", "y"} |-> 3]

\* the combination has been constructed from its members
InitToy ==
    /\ likelihoods \in ToyCombinations
    /\ param_needed = CombinedAfter(likelihoods, Len(likelihoods)).param_needed
    /\ param_range = CombinedAfter(likelihoods, Len(likelihoods)).param_range
    /\ ret = [op |-> "combine", status |-> "returned"]
    /\ likelihood_entries = EmptyDict
    /\ bound_data = NoData
    /\ max_loglikelihood = NoMax
    /\ pending = <<>>
    /\ opt_pc = "idle"
    /\ opt_method = "none"
    /\ opt_tried = <<>>
    /\ opt_ret = NoRet
    /\ defined = FALSE
    /\ InitExt

NextToy ==
    \/ \E param \in {EmptyDict, [k \in {"mu"} |-> 1]} : set_data_from_toymc(param)
    \/ \E param \in ToyParams : loglikelihood(param)
    \/ \E i \in 1..MaxMembers : member_set_data(i, EarlierData)

SpecToy == InitToy /\ [][NextToy]_vars

----------------------------------------------------------------------------
(* The combined log-likelihood and toy data: claims C11, C12 *)

\* the sum of the terms of member i on the flat dictionary p, no penalty
MemberTerms(i, p) ==
    DictSum([tag \in DOMAIN likelihoods[i].likelihood_entries |->
                TermLoglikelihood(likelihoods[i].likelihood_entries[tag], p)])

\* the members whose param_range has key, and those whose bound for key is
\* the combination's
RangeMembers(key) ==
    {i \in 1..Len(likelihoods) : key \in DOMAIN likelihoods[i].param_range}
SharingMembers(key) ==
    {i \in RangeMembers(key) : likelihoods[i].param_range[key] = param_range[key]}

\* C11: CombinedProfiledLikelihood.loglikelihood(flat) is the combination's
\* own penalty over its intersected param_range plus the sum of every
\* member's current loglikelihood(flat), each with the member's own penalty
\* (it raises when a member's does); when mu lies outside a range that the
\* combination shares with the k members that constrain mu, the penalty of
\* that range is counted k + 1 times.
C11_CombinedLoglikelihood ==
    ret.op = "loglikelihood" =>
        IF \E i \in 1..Len(likelihoods) : MemberRaises(likelihoods[i], ret.param)
        THEN ret.status = "raised"
        ELSE /\ ret.status = "returned"
             /\ ret.value =
                   GetParamBoundAuxLlh(param_range, ret.param)
                     + DictSum([i \in 1..Len(likelihoods) |->
                          GetParamBoundAuxLlh(likelihoods[i].param_range,
                              MakeParam(likelihoods[i].bound_data.data, ret.param))
                            + MemberTerms(i, MakeParam(likelihoods[i].bound_data.data,
                                                       ret.param))])
             /\ ("mu" \in DOMAIN param_range
                    /\ SharingMembers("mu") = RangeMembers("mu")
                    /\ ~InRange(param_range, "mu", ret.param["mu"])) =>
                   ret.value =
                      (Cardinality(SharingMembers("mu")) + 1)
                            * KeyAux(param_range, "mu", ret.param["mu"])
                        + DictSum([i \in 1..Len(likelihoods) |->
                             MemberTerms(i, MakeParam(likelihoods[i].bound_data.data,
                                                      ret.param))])

\* three data-bound members, two of which share the range of mu with the
\* combination, evaluated with mu above the range: three penalties
C11_Witness ==
    /\ ret.op = "loglikelihood"
    /\ ret.status = "returned"
    /\ Len(likelihoods) = 3
    /\ \A i \in 1..3 : likelihoods[i].bound_data.bound
    /\ Cardinality(SharingMembers("mu")) = 2
    /\ ret.param["mu"] > param_range["mu"][2]
    /\ ret.value - DictSum([i \in 1..3 |->
                       MemberTerms(i, MakeParam(likelihoods[i].bound_data.data, ret.param))])
          = 3 * KeyAux(param_range, "mu", ret.param["mu"])
    /\ KeyAux(param_range, "mu", ret.param["mu"]) < 0

\* the key k of the merged data has the sample of the last member giving it
LastSample(samples, k) ==
    samples[CHOOSE i \in 1..Len(samples) :
                /\ k \in DOMAIN samples[i]
                /\ \A j \in (i + 1)..Len(samples) : k \notin DOMAIN samples[j]][k]

\* C12: a set_data_from_toymc(param) that returns has called the simulate of
\* each member once, merged the samples into one dictionary (a later
\* member's sample of a key replaces an earlier one's) and bound every
\* member to that dictionary, whatever data a member was bound to before;
\* the combined loglikelihood then evaluates every member on it.
C12_ToyDataSharedByAllMembers ==
    (ret.op = "set_data_from_toymc" /\ ret.status = "returned") =>
        /\ \A i \in 1..Len(likelihoods) :
              /\ ret.nsim[i] = 1
              /\ likelihoods[i].bound_data = BoundTo(ret.data)
        /\ DOMAIN ret.data = UNION {DOMAIN ret.samples[i] : i \in 1..Len(ret.samples)}
        /\ \A k \in DOMAIN ret.data : ret.data[k] = LastSample(ret.samples, k)
        /\ \A param \in {p \in ToyParams : "mu" \in DOMAIN p} :
              /\ ~(\E i \in 1..Len(likelihoods) : MemberRaises(likelihoods[i], param))
              /\ CombinedLlh(likelihoods, param, Len(likelihoods)) =
                    GetParamBoundAuxLlh(param_range, param)
                      + DictSum([i \in 1..Len(likelihoods) |->
                           GetParamBoundAuxLlh(likelihoods[i].param_range,
                                               MakeParam(ret.data, param))
                             + MemberTerms(i, MakeParam(ret.data, param))])

\* two members drew different samples of the same key x: both are bound to
\* the merged data, which has the second member's sample
C12_Witness ==
    /\ ret.op = "set_data_from_toymc"
    /\ ret.status = "returned"
    /\ Len(likelihoods) = 3
    /\ \E i, j \in 1..3 :
          /\ i < j
          /\ DOMAIN ret.samples[i] = {"x"}
          /\ DOMAIN ret.samples[j] = {"x"}
          /\ ret.samples[i]["x"] # ret.samples[j]["x"]
          /\ ret.data["x"] = ret.samples[j]["x"]
    /\ \A i \in 1..3 : likelihoods[i].bound_data.data = ret.data

====
